---- MODULE Spec2Model ----
(***************************************************************************)
(* Model of the dhammapada extractor (cmd/extract main): the hOCR pass     *)
(* that stitches verse texts out of pages, lines and words, and the entity *)
(* assembler that groups the verses into singles and composite pairs; and  *)
(* of the poster (cmd/poster main) that tweets one unposted text per run.  *)
(*                                                                         *)
(* Strings are sequences of one-character strings, so that joining,        *)
(* trimming, the punctuation fix, Atoi and Itoa are computed the way the   *)
(* code computes them.  A rune outside ASCII, and the vertical tab, is one *)
(* character written by its code point ("U+00A0").  The int of the code is *)
(* 64 bits wide; it is written MaxInt at its upper end and MinInt at its   *)
(* lower end, and a numeral stands for itself as long as its value lies    *)
(* below MaxInt's stand-in.  A geometry annotation ("title") is modelled by the *)
(* numerals that follow its keyword: "bbox 1 2 3 4" is <<1,2,3,4>>, an     *)
(* absent or short annotation is a shorter sequence.                       *)
(***************************************************************************)
EXTENDS Integers, Sequences, FiniteSets, TLC

\* ---------------------------------------------------------------- bounds
MaxPages == 2
MaxLines == 2
MaxWords == 4
MaxPairs == 2
MaxVerse == 3
MaxPairNum == 2

\* ------------------------------------------------------- program constants
FootnotePct == 82
LeftMarginPct == 20
superRisePx == 5

Nil == -1

\* ------------------------------------------------------------ characters
Digits == {"0", "1", "2", "3", "4", "5", "6", "7", "8", "9"}
\* the class \s of the regexp package: [\t\n\f\r ]
ReSpace == {" ", "\t", "\n", "\f", "\r"}
\* unicode.IsSpace, the runes strings.TrimSpace strips: the class \s, the
\* vertical tab, U+0085 (NEL), U+00A0 (NBSP) and the category Z
NBSP == "U+00A0"
WhiteSpace ==
  ReSpace \cup
  { "U+000B", "U+0085", NBSP,
    "U+1680", "U+2000", "U+2001", "U+2002", "U+2003", "U+2004", "U+2005",
    "U+2006", "U+2007", "U+2008", "U+2009", "U+200A", "U+2028", "U+2029",
    "U+202F", "U+205F", "U+3000" }
Punct == {",", ".", ";", ":", "!", "?"}

DigitVal(c) ==
  CASE c = "0" -> 0 [] c = "1" -> 1 [] c = "2" -> 2 [] c = "3" -> 3
    [] c = "4" -> 4 [] c = "5" -> 5 [] c = "6" -> 6 [] c = "7" -> 7
    [] c = "8" -> 8 [] c = "9" -> 9

DigitChar(d) ==
  CASE d = 0 -> "0" [] d = 1 -> "1" [] d = 2 -> "2" [] d = 3 -> "3"
    [] d = 4 -> "4" [] d = 5 -> "5" [] d = 6 -> "6" [] d = 7 -> "7"
    [] d = 8 -> "8" [] d = 9 -> "9"

\* ------------------------------------------------------- string helpers
RECURSIVE TrimLeft(_)
TrimLeft(s) ==
  IF s # <<>> /\ Head(s) \in WhiteSpace THEN TrimLeft(Tail(s)) ELSE s

RECURSIVE TrimRight(_)
TrimRight(s) ==
  IF s # <<>> /\ s[Len(s)] \in WhiteSpace
    THEN TrimRight(SubSeq(s, 1, Len(s) - 1))
    ELSE s

\* strings.TrimSpace
TrimSpace(s) == TrimRight(TrimLeft(s))

\* strings.Join
RECURSIVE Join(_, _)
Join(ss, sep) ==
  IF ss = <<>> THEN <<>>
  ELSE IF Len(ss) = 1 THEN ss[1]
  ELSE ss[1] \o sep \o Join(Tail(ss), sep)

\* length of the run of \s at the head of s
RECURSIVE SpaceRun(_)
SpaceRun(s) ==
  IF s # <<>> /\ Head(s) \in ReSpace THEN 1 + SpaceRun(Tail(s)) ELSE 0

\* regexp `\s+([,.;:!?])` replaced by "$1": a run of \s that is directly
\* followed by a punctuation mark is deleted.
RECURSIVE FixPunct(_)
FixPunct(s) ==
  IF s = <<>> THEN <<>>
  ELSE LET k == SpaceRun(s) IN
    IF k = 0 THEN <<Head(s)>> \o FixPunct(Tail(s))
    ELSE IF k < Len(s) /\ s[k + 1] \in Punct
      THEN FixPunct(SubSeq(s, k + 1, Len(s)))
      ELSE SubSeq(s, 1, k) \o FixPunct(SubSeq(s, k + 1, Len(s)))

\* variant: the tokens are joined and the fix is not applied
joinWithSpacesNoFix(tokens) == Join(tokens, <<" ">>)

joinWithSpaces(tokens) == FixPunct(Join(tokens, <<" ">>))

\* reInt = `^\d+$`
reIntMatch(s) == s # <<>> /\ \A i \in 1..Len(s) : s[i] \in Digits

RECURSIVE DecVal(_)
DecVal(s) ==
  IF s = <<>> THEN 0 ELSE DecVal(SubSeq(s, 1, Len(s) - 1)) * 10 + DigitVal(s[Len(s)])

\* the ends of the int range, 1<<63 - 1 and -1<<63, as numerals
MaxIntDigits ==
  << "9", "2", "2", "3", "3", "7", "2", "0", "3", "6",
     "8", "5", "4", "7", "7", "5", "8", "0", "7" >>
MinIntDigits ==
  << "9", "2", "2", "3", "3", "7", "2", "0", "3", "6",
     "8", "5", "4", "7", "7", "5", "8", "0", "8" >>
\* the stand-ins of 1<<63 - 1 and -1<<63 among the integers at hand
MaxInt == 2147483647
MinInt == (0 - MaxInt) - 1

RECURSIVE StripZeros(_)
StripZeros(s) ==
  IF Len(s) > 1 /\ Head(s) = "0" THEN StripZeros(Tail(s)) ELSE s

RECURSIVE LexLess(_, _)
LexLess(a, b) ==
  IF a = <<>> THEN FALSE
  ELSE IF Head(a) # Head(b) THEN DigitVal(Head(a)) < DigitVal(Head(b))
  ELSE LexLess(Tail(a), Tail(b))

\* a < b as numbers, for two numerals
NumLess(a, b) ==
  LET x == StripZeros(a)
      y == StripZeros(b)
  IN Len(x) < Len(y) \/ (Len(x) = Len(y) /\ LexLess(x, y))

\* the largest uint64, 1<<64 - 1, as a numeral
MaxUintDigits ==
  << "1", "8", "4", "4", "6", "7", "4", "4", "0", "7",
     "3", "7", "0", "9", "5", "5", "1", "6", "1", "5" >>

\* the digits at the head of s
RECURSIVE DigitPrefix(_)
DigitPrefix(s) ==
  IF s # <<>> /\ Head(s) \in Digits THEN <<Head(s)>> \o DigitPrefix(Tail(s)) ELSE <<>>

\* strconv.Atoi: optional sign, then decimal digits only.  The string is
\* read from the left and the first error met is the one returned: digits
\* that run beyond 1<<64 - 1 give the range error, whatever follows them;
\* otherwise a character that is no digit (or no digit at all) gives the
\* syntax error and 0; otherwise a value beyond the int range gives the
\* range error.  With the range error comes the end of the int range.
StrconvAtoi(s) ==
  LET body == IF s # <<>> /\ Head(s) \in {"+", "-"} THEN Tail(s) ELSE s
      neg == s # <<>> /\ Head(s) = "-"
      ends == [ok |-> FALSE, val |-> IF neg THEN MinInt ELSE MaxInt]
  IN IF NumLess(MaxUintDigits, DigitPrefix(body)) THEN ends
     ELSE IF ~reIntMatch(body) THEN [ok |-> FALSE, val |-> 0]
     ELSE IF neg
       THEN IF NumLess(body, MinIntDigits)
              THEN [ok |-> TRUE, val |-> 0 - DecVal(body)]
              ELSE [ok |-> ~NumLess(MinIntDigits, body), val |-> MinInt]
       ELSE IF NumLess(body, MaxIntDigits)
              THEN [ok |-> TRUE, val |-> DecVal(body)]
              ELSE [ok |-> ~NumLess(MaxIntDigits, body), val |-> MaxInt]

\* atoi: the error is ignored, so the value is 0 on a syntax error and the
\* end of the range on a range error
atoi(s) == StrconvAtoi(s).val

RECURSIVE ItoaNat(_)
ItoaNat(n) ==
  IF n < 10 THEN <<DigitChar(n)>> ELSE ItoaNat(n \div 10) \o <<DigitChar(n % 10)>>

\* strconv.Itoa, and the %d verb of fmt.Sprintf
Itoa(n) ==
  IF n = MaxInt THEN MaxIntDigits
  ELSE IF n = MinInt THEN <<"-">> \o MinIntDigits
  ELSE IF n < 0 THEN <<"-">> \o ItoaNat(0 - n) ELSE ItoaNat(n)

\* variant: numerals that are missing are read as 0
parseBBoxLenient(title) ==
  LET n(i) == IF i <= Len(title.bbox) THEN title.bbox[i] ELSE 0
  IN [ok |-> TRUE, b |-> [x0 |-> n(1), y0 |-> n(2), x1 |-> n(3), y1 |-> n(4)]]

\* -------------------------------------------------------------- geometry
\* regexp `bbox\s+(\d+)\s+(\d+)\s+(\d+)\s+(\d+)`: four numerals are needed
parseBBox(title) ==
  IF Len(title.bbox) >= 4
    THEN [ok |-> TRUE,
          b |-> [x0 |-> title.bbox[1], y0 |-> title.bbox[2],
                 x1 |-> title.bbox[3], y1 |-> title.bbox[4]]]
    ELSE [ok |-> FALSE, b |-> [x0 |-> 0, y0 |-> 0, x1 |-> 0, y1 |-> 0]]

\* regexp `ppageno\s+(\d+)`
parsePageNo(title) ==
  IF Len(title.ppageno) >= 1
    THEN [ok |-> TRUE, pp |-> title.ppageno[1]]
    ELSE [ok |-> FALSE, pp |-> 0]

\* int(float64(n) * 0.82) and int(float64(n) * 0.20).  The product is
\* rounded to a float64 before it is truncated toward zero.  For the sizes
\* up to 20000 the product with 0.20 is never below the exact one, and the
\* product with 0.82 is just under an integer for the sizes below.
FloatRoundsDown ==
  {150, 300, 600, 1200} \cup
  { n \in 2350..2450 \cup 4700..4950 \cup 9350..9950 \cup 18650..19950 :
      n % 50 = 0 }
FracAbs(n, pct) ==
  IF pct = FootnotePct /\ n \in FloatRoundsDown
    THEN ((n * pct) \div 100) - 1
    ELSE (n * pct) \div 100
FracOf(n, pct) == IF n < 0 THEN 0 - FracAbs(0 - n, pct) ELSE FracAbs(n, pct)

footCutOf(pb) == pb.y0 + FracOf(pb.y1 - pb.y0, FootnotePct)
leftCutOf(pb) == pb.x0 + FracOf(pb.x1 - pb.x0, LeftMarginPct)

\* ---------------------------------------------------------------- bounds
MaxToks == 3
MaxTexts == 2
MaxImages == 5
MaxRuns == 2

\* ------------------------------------------------------------ the inputs
\* tokens handed to joinWithSpaces, some with white space or punctuation inside
JoinToks ==
  { <<"a">>, <<",">>, <<".">>, <<" ">>, <<"a", " ", ",">>, <<" ", ",">>,
    <<"a", " ", " ">>, <<"a", "\t">>, <<"\n", ".">>, <<"a", NBSP>> }
TokSeqs == UNION {[1..n -> JoinToks] : n \in 0..MaxToks}

\* title attributes of .ocr_page elements: the numerals after "bbox" and
\* after "ppageno"
PageBoxSeqs == {<<>>, <<0, 0, 10>>, <<0, 0, 10, 100>>, <<1, 0, 6, 100>>}
PageNoSeqs == {<<>>, <<1>>, <<2>>, <<3>>}
PageTitles == [bbox : PageBoxSeqs, ppageno : PageNoSeqs]
NoTitle == [bbox |-> <<>>, ppageno |-> <<>>]

\* title attributes of .ocr_line elements
LineBoxSeqs == {<<>>, <<0, 10, 9, 20>>, <<0, 82, 9, 90>>}
LineTitles == [bbox : LineBoxSeqs]

\* .ocrx_word elements: the title's bbox numerals and the element's text
WordBoxSeqs == {<<>>, <<2, 5, 3, 20>>, <<3, 5, 4, 20>>, <<2, 4, 3, 20>>}
RawTexts == {<<"1">>, <<"2">>, <<"1", "a">>, <<",">>}
\* texts with white space around them, or nothing else, at the left margin
PaddedTexts == {<<"\n">>, <<"\t", "1", "a", NBSP, " ">>}
RawWords ==
  [bbox : WordBoxSeqs, text : RawTexts]
    \cup [bbox : {<<2, 5, 3, 20>>}, text : PaddedTexts]

\* the inputs of the two-phase page callback (SpecGeom): pages of height 50
\* (top 5) and 150, a page whose box has its bottom 150 above its top, a
\* page box with three numerals; lines at the tops 9 and 10, at 46 (the
\* cutoff of the first page, and 82/100 of the way up the third) and at
\* 123; words at the tops 4 and 5 and, for the lines further down, at 41
GeomPageBoxSeqs ==
  {<<0, 0, 10>>, <<2, 5, 12, 55>>, <<0, 0, 10, 150>>, <<0, 169, 10, 19>>}
GeomPageTitles == [bbox : GeomPageBoxSeqs, ppageno : {<<>>}]
GeomLineBoxSeqs ==
  {<<>>, <<0, 10, 9, 20>>, <<0, 9, 9, 20>>, <<0, 46, 9, 50>>, <<0, 123, 9, 130>>}
GeomLineTitles == [bbox : GeomLineBoxSeqs]
GeomWordBoxSeqs ==
  {<<>>, <<2, 5, 3, 20>>, <<5, 5, 6, 20>>, <<2, 4, 3, 20>>, <<2, 41, 3, 50>>}
GeomTexts == {<<"1">>, <<"1", "a">>, <<"\n">>}
GeomWords == [bbox : GeomWordBoxSeqs, text : GeomTexts]

\* the -page-min / -page-max flags
Windows == {<<2, 2>>, <<3, 1>>}

NoBox == [x0 |-> 0, y0 |-> 0, x1 |-> 0, y1 |-> 0]
NoLine == [b |-> NoBox, ws |-> <<>>]
NoLineTitle == [bbox |-> <<>>]
NoWord == [bbox |-> <<>>, text |-> <<>>]
EmptyMap == [k \in {} |-> <<>>]

VARIABLES
  pc,          \* where main is: "pages", "page", "lines", "words", "stitch",
               \* then "pairs", "composites", "singles", "done" or "fatal"
  pageMin, pageMax,   \* the page window flags
  verses,      \* map verse number -> text
  title,       \* title attribute of the page whose callback was entered
  leftCut, footCut,   \* cutoffs of the page being processed
  lb,          \* bbox of the line being read
  ws,          \* surviving words of the line being read
  ln,          \* the cleaned line handed to the stitch loop
  currentNum,  \* open verse number, Nil when none
  buf,         \* words buffered for the open verse
  prevOpen,    \* history: the verse that was open when the previous processed
               \* page ended, until the current page starts a verse
  nPages, nLines, nWords,   \* processed pages, lines read, words kept so far
  pairs, pi,   \* parsed composite pairs and the loop index over them
  consumed,    \* verse numbers used by a composite
  keys, ki,    \* sorted remaining verse numbers and the loop index over them
  entities,    \* emitted text entities [id, label, body]
  mappings,    \* emitted (text id, verse number) mappings
  composites,  \* the value of the -pairs flag once parsePairs has read it
  pb,          \* bbox of the page being processed (two-phase page callback)
  ltitle,      \* title attribute of the line whose callback was entered
  wel,         \* the word element whose callback was entered
  lines,       \* cleaned lines collected for the page
  li,          \* index of the stitch loop over lines
  toks,        \* joinWithSpaces alone: the tokens it is called with
  joined,      \* joinWithSpaces alone: the string it returned
  fsLabel, fsBody,   \* formatStatus alone: the label and body it is called with
  status,      \* the status text formatStatus returned
  dryRun,      \* poster: DRY_RUN=1
  creds,       \* poster: the four X_* credentials are all set
  texts,       \* poster: the texts table, id -> [label, body, posted, xPostID]
  images,      \* poster: the images table, id -> for each path whether the
               \* file can be read
  sel,         \* poster: id of the text the run selected, Nil when none
  perr,        \* poster: the error the run died of, "" when none
  tweets,      \* poster: the tweets that exist on X, as ids of texts
  uploads,     \* poster: media uploads made so far
  ui,          \* poster: index of the upload loop over the images
  runs         \* poster: runs started so far

stitchVars == <<title, leftCut, footCut, lb, ws, ln, currentNum, buf, prevOpen, nPages, nLines, nWords>>
geomVars == <<pb, ltitle, wel, lines, li>>
joinVars == <<toks, joined>>
statusVars == <<fsLabel, fsBody, status>>
posterVars == <<dryRun, creds, texts, images, sel, perr, tweets, uploads, ui, runs>>
extVars == <<geomVars, joinVars, statusVars, posterVars>>
otherVars == <<joinVars, statusVars, posterVars>>
asmVars == <<pairs, pi, consumed, keys, ki, entities, mappings, composites>>
vars == <<pc, pageMin, pageMax, verses, stitchVars, asmVars, extVars>>

\* the variables of the other specifications at rest
GeomIdle == pb = NoBox /\ ltitle = NoLineTitle /\ wel = NoWord /\ lines = <<>> /\ li = 1
JoinIdle == toks = <<>> /\ joined = <<>>
StatusIdle == fsLabel = <<>> /\ fsBody = <<>> /\ status = <<>>
PosterIdle ==
  /\ dryRun = FALSE /\ creds = FALSE
  /\ texts = EmptyMap /\ images = EmptyMap
  /\ sel = Nil /\ perr = "" /\ tweets = <<>> /\ uploads = 0 /\ ui = 1 /\ runs = 0
ExtIdle == GeomIdle /\ JoinIdle /\ StatusIdle /\ PosterIdle

\* ------------------------------------------------------------- stitcher
\* variant: buf is reset only when a verse was stored
flushKeepsBuf(vs, cur, b) ==
  [verses |->
     IF cur # Nil /\ Len(b) > 0
       THEN LET txt == TrimSpace(joinWithSpaces(b)) IN
         IF cur \in DOMAIN vs
           THEN [vs EXCEPT ![cur] = TrimSpace(vs[cur] \o <<" ">> \o txt)]
           ELSE [k \in DOMAIN vs \cup {cur} |-> IF k = cur THEN txt ELSE vs[k]]
       ELSE vs,
   currentNum |-> Nil,
   buf |-> IF cur # Nil /\ Len(b) > 0 THEN <<>> ELSE b]

\* variant: a flushed text replaces the stored one
flushOverwrites(vs, cur, b) ==
  [verses |->
     IF cur # Nil /\ Len(b) > 0
       THEN LET txt == TrimSpace(joinWithSpaces(b)) IN
         [k \in DOMAIN vs \cup {cur} |-> IF k = cur THEN txt ELSE vs[k]]
       ELSE vs,
   currentNum |-> Nil,
   buf |-> <<>>]

\* variant: no test that words were buffered
flushNoLenTest(vs, cur, b) ==
  [verses |->
     IF cur # Nil
       THEN LET txt == TrimSpace(joinWithSpaces(b)) IN
         IF cur \in DOMAIN vs
           THEN [vs EXCEPT ![cur] = TrimSpace(vs[cur] \o <<" ">> \o txt)]
           ELSE [k \in DOMAIN vs \cup {cur} |-> IF k = cur THEN txt ELSE vs[k]]
       ELSE vs,
   currentNum |-> Nil,
   buf |-> <<>>]

\* variant: the new words are put in front of the stored text
flushPrepends(vs, cur, b) ==
  [verses |->
     IF cur # Nil /\ Len(b) > 0
       THEN LET txt == TrimSpace(joinWithSpaces(b)) IN
         IF cur \in DOMAIN vs
           THEN [vs EXCEPT ![cur] = TrimSpace(txt \o <<" ">> \o vs[cur])]
           ELSE [k \in DOMAIN vs \cup {cur} |-> IF k = cur THEN txt ELSE vs[k]]
       ELSE vs,
   currentNum |-> Nil,
   buf |-> <<>>]

\* the flush closure: what it leaves in verses, currentNum and buf
flush(vs, cur, b) ==
  [verses |->
     IF cur # Nil /\ Len(b) > 0
       THEN LET txt == TrimSpace(joinWithSpaces(b)) IN
         IF cur \in DOMAIN vs
           THEN [vs EXCEPT ![cur] = TrimSpace(vs[cur] \o <<" ">> \o txt)]
           ELSE [k \in DOMAIN vs \cup {cur} |-> IF k = cur THEN txt ELSE vs[k]]
       ELSE vs,
   currentNum |-> Nil,
   buf |-> <<>>]

\* variant: only the lower end of the window is tested
outsideWindowLow(pp, lo, hi) == pp < lo

\* the page window test
outsideWindow(pp, lo, hi) == pp < lo \/ pp > hi

\* variant: a word exactly superRisePx above the line is a superscript too
isSuperscriptLoose(wb, lineBox) == wb.y0 <= lineBox.y0 - superRisePx

\* the superscript test
isSuperscript(wb, lineBox) == wb.y0 < lineBox.y0 - superRisePx

\* variant: a line exactly at the cutoff is kept
inFootnotesStrict(lineBox, cut) == lineBox.y0 > cut

\* the footnote-region test
inFootnotes(lineBox, cut) == lineBox.y0 >= cut

\* the verse-start test of the stitch loop
startsVerse(l, cut) == l.ws[1].x <= cut /\ reIntMatch(l.ws[1].t)

\* the texts of a sequence of words
RECURSIVE wordTexts(_)
wordTexts(w) == IF w = <<>> THEN <<>> ELSE <<Head(w).t>> \o wordTexts(Tail(w))

\* variant: the words stay in the order they were read
asRead(w) == {w}

\* sort.Slice by x: the sort is not stable, so every arrangement in
\* non-decreasing x is a possible result (words of equal x in any order)
RemoveAt(w, i) == SubSeq(w, 1, i - 1) \o SubSeq(w, i + 1, Len(w))
RECURSIVE sortedByX(_)
sortedByX(w) ==
  IF w = <<>> THEN {<<>>}
  ELSE LET least == {i \in 1..Len(w) : \A j \in 1..Len(w) : w[i].x <= w[j].x}
       IN UNION {{<<w[i]>> \o r : r \in sortedByX(RemoveAt(w, i))} : i \in least}

\* doc.Find(".ocr_page").Each: the callback is entered for the next page
PageEnter(t) ==
  /\ pc = "pages"
  /\ nPages < MaxPages
  /\ pc' = "page"
  /\ title' = t
  /\ UNCHANGED <<pageMin, pageMax, verses, leftCut, footCut, lb, ws, ln,
                 currentNum, buf, prevOpen, nPages, nLines, nWords, asmVars, extVars>>

\* the page filter and the page's cutoffs
PageFilter ==
  /\ pc = "page"
  /\ LET r == parseBBox(title)
         p == parsePageNo(title)
     IN IF ~r.ok \/ (p.ok /\ outsideWindow(p.pp, pageMin, pageMax))
          THEN /\ pc' = "pages"
               /\ UNCHANGED <<leftCut, footCut, nPages>>
          ELSE /\ pc' = "lines"
               /\ footCut' = footCutOf(r.b)
               /\ leftCut' = leftCutOf(r.b)
               /\ nPages' = nPages + 1
  /\ title' = NoTitle
  /\ UNCHANGED <<pageMin, pageMax, verses, lb, ws, ln, currentNum, buf,
                 prevOpen, nLines, nWords, asmVars, extVars>>

\* pg.Find(".ocr_line").Each: a line element is entered
Line(t) ==
  /\ pc = "lines"
  /\ nLines < MaxLines
  /\ LET r == parseBBox(t)
     IN IF ~r.ok \/ inFootnotes(r.b, footCut)
          THEN UNCHANGED <<pc, lb, ws, nLines>>
          ELSE /\ pc' = "words"
               /\ lb' = r.b
               /\ ws' = <<>>
               /\ nLines' = nLines + 1
  /\ UNCHANGED <<pageMin, pageMax, verses, title, leftCut, footCut, ln,
                 currentNum, buf, prevOpen, nPages, nWords, asmVars, extVars>>

\* ln.Find(".ocrx_word").Each: one word element
Word(w) ==
  /\ pc = "words"
  /\ nWords < MaxWords
  /\ LET r == parseBBox(w)
         text == TrimSpace(w.text)
     IN IF ~r.ok \/ text = <<>> \/ isSuperscript(r.b, lb)
          THEN UNCHANGED <<ws, nWords>>
          ELSE /\ ws' = Append(ws, [x |-> r.b.x0, t |-> text])
               /\ nWords' = nWords + 1
  /\ UNCHANGED <<pc, pageMin, pageMax, verses, title, leftCut, footCut, lb, ln,
                 currentNum, buf, prevOpen, nPages, nLines, asmVars, extVars>>

\* end of the line callback: an empty line is dropped, otherwise the words
\* are sorted and the line is appended for the stitch loop
EndLine ==
  /\ pc = "words"
  /\ IF Len(ws) = 0
       THEN /\ pc' = "lines"
            /\ UNCHANGED ln
       ELSE /\ pc' = "stitch"
            /\ \E s \in sortedByX(ws) : ln' = [b |-> lb, ws |-> s]
  /\ lb' = NoBox
  /\ ws' = <<>>
  /\ UNCHANGED <<pageMin, pageMax, verses, title, leftCut, footCut,
                 currentNum, buf, prevOpen, nPages, nLines, nWords, asmVars, extVars>>

\* one iteration of the stitch loop
Stitch ==
  /\ pc = "stitch"
  /\ IF startsVerse(ln, leftCut)
       THEN LET f == flush(verses, currentNum, buf)
            IN /\ verses' = f.verses
               /\ currentNum' = atoi(ln.ws[1].t)
               /\ buf' = f.buf \o wordTexts(Tail(ln.ws))
               /\ prevOpen' = Nil
       ELSE /\ buf' = buf \o wordTexts(ln.ws)
            /\ UNCHANGED <<verses, currentNum, prevOpen>>
  /\ pc' = "lines"
  /\ ln' = NoLine
  /\ UNCHANGED <<pageMin, pageMax, title, leftCut, footCut, lb, ws,
                 nPages, nLines, nWords, asmVars, extVars>>

\* the final flush of the page; currentNum and buf are the callback's locals
EndPage ==
  /\ pc = "lines"
  /\ LET f == flush(verses, currentNum, buf)
     IN /\ verses' = f.verses
        /\ currentNum' = f.currentNum
        /\ buf' = f.buf
  /\ prevOpen' = currentNum
  /\ pc' = "pages"
  /\ leftCut' = 0
  /\ footCut' = 0
  /\ UNCHANGED <<pageMin, pageMax, title, lb, ws, ln, nPages, nLines, nWords, asmVars, extVars>>

\* the page loop is over
EndPages ==
  /\ pc = "pages"
  /\ pc' = "pairs"
  /\ prevOpen' = Nil /\ nPages' = 0 /\ nLines' = 0 /\ nWords' = 0
  /\ UNCHANGED <<pageMin, pageMax, verses, title, leftCut, footCut, lb, ws, ln,
                 currentNum, buf, asmVars, extVars>>

\* ------------------------------------- the page callback in its two phases
\* the page filter; pb is kept for the page
PageStart ==
  /\ pc = "page"
  /\ LET r == parseBBox(title)
         p == parsePageNo(title)
     IN IF ~r.ok \/ (p.ok /\ outsideWindow(p.pp, pageMin, pageMax))
          THEN /\ pc' = "pages"
               /\ UNCHANGED <<pb, leftCut, footCut, nPages>>
          ELSE /\ pc' = "lines"
               /\ pb' = r.b
               /\ footCut' = footCutOf(r.b)
               /\ leftCut' = leftCutOf(r.b)
               /\ nPages' = nPages + 1
  /\ title' = NoTitle
  /\ UNCHANGED <<pageMin, pageMax, verses, lb, ws, ln, currentNum, buf,
                 prevOpen, nLines, nWords, asmVars, ltitle, wel, lines, li, otherVars>>

\* the line callback is entered for the next .ocr_line element
LineEnter(t) ==
  /\ pc = "lines"
  /\ nLines < MaxLines
  /\ pc' = "line"
  /\ ltitle' = t
  /\ UNCHANGED <<pageMin, pageMax, verses, stitchVars, asmVars, pb, wel, lines, li, otherVars>>

\* the line's bbox and the footnote filter
LineFilter ==
  /\ pc = "line"
  /\ LET r == parseBBox(ltitle)
     IN IF ~r.ok \/ inFootnotes(r.b, footCut)
          THEN /\ pc' = "lines"
               /\ UNCHANGED <<lb, ws, nLines>>
          ELSE /\ pc' = "words"
               /\ lb' = r.b
               /\ ws' = <<>>
               /\ nLines' = nLines + 1
  /\ ltitle' = NoLineTitle
  /\ UNCHANGED <<pageMin, pageMax, verses, title, leftCut, footCut, ln,
                 currentNum, buf, prevOpen, nPages, nWords, asmVars,
                 pb, wel, lines, li, otherVars>>

\* the word callback is entered for the next .ocrx_word element
WordEnter(w) ==
  /\ pc = "words"
  /\ nWords < MaxWords
  /\ pc' = "word"
  /\ wel' = w
  /\ UNCHANGED <<pageMin, pageMax, verses, stitchVars, asmVars, pb, ltitle, lines, li, otherVars>>

\* the word's bbox, its text and the superscript filter
WordFilter ==
  /\ pc = "word"
  /\ LET r == parseBBox(wel)
         text == TrimSpace(wel.text)
     IN IF ~r.ok \/ text = <<>> \/ isSuperscript(r.b, lb)
          THEN UNCHANGED <<ws, nWords>>
          ELSE /\ ws' = Append(ws, [x |-> r.b.x0, t |-> text])
               /\ nWords' = nWords + 1
  /\ pc' = "words"
  /\ wel' = NoWord
  /\ UNCHANGED <<pageMin, pageMax, verses, title, leftCut, footCut, lb, ln,
                 currentNum, buf, prevOpen, nPages, nLines, asmVars,
                 pb, ltitle, lines, li, otherVars>>

\* end of the line callback: lines = append(lines, Line{...}) after the sort
LineDone ==
  /\ pc = "words"
  /\ IF Len(ws) = 0
       THEN UNCHANGED lines
       ELSE \E s \in sortedByX(ws) : lines' = Append(lines, [b |-> lb, ws |-> s])
  /\ pc' = "lines"
  /\ lb' = NoBox
  /\ ws' = <<>>
  /\ UNCHANGED <<pageMin, pageMax, verses, title, leftCut, footCut, ln,
                 currentNum, buf, prevOpen, nPages, nLines, nWords, asmVars,
                 pb, ltitle, wel, li, otherVars>>

\* all lines of the page were read: the stitch loop starts
StitchStart ==
  /\ pc = "lines"
  /\ pc' = "stitching"
  /\ li' = 1
  /\ UNCHANGED <<pageMin, pageMax, verses, stitchVars, asmVars, pb, ltitle, wel, lines, otherVars>>

\* one iteration of for _, ln := range lines
StitchLine ==
  /\ pc = "stitching"
  /\ li <= Len(lines)
  /\ IF startsVerse(lines[li], leftCut)
       THEN LET f == flush(verses, currentNum, buf)
            IN /\ verses' = f.verses
               /\ currentNum' = atoi(lines[li].ws[1].t)
               /\ buf' = f.buf \o wordTexts(Tail(lines[li].ws))
       ELSE /\ buf' = buf \o wordTexts(lines[li].ws)
            /\ UNCHANGED <<verses, currentNum>>
  /\ li' = li + 1
  /\ UNCHANGED <<pc, pageMin, pageMax, title, leftCut, footCut, lb, ws, ln,
                 prevOpen, nPages, nLines, nWords, asmVars, pb, ltitle, wel, lines, otherVars>>

\* the final flush of the page; the page's locals go out of scope
PageDone ==
  /\ pc = "stitching"
  /\ li > Len(lines)
  /\ LET f == flush(verses, currentNum, buf)
     IN /\ verses' = f.verses
        /\ currentNum' = f.currentNum
        /\ buf' = f.buf
  /\ pc' = "pages"
  /\ leftCut' = 0
  /\ footCut' = 0
  /\ pb' = NoBox
  /\ lines' = <<>>
  /\ li' = 1
  /\ UNCHANGED <<pageMin, pageMax, title, lb, ws, ln, prevOpen, nPages, nLines,
                 nWords, asmVars, ltitle, wel, otherVars>>

\* ------------------------------------------------------ entity assembler
\* strings.Split on a one-character separator
RECURSIVE Split(_, _)
Split(s, sep) ==
  IF \A i \in 1..Len(s) : s[i] # sep THEN <<s>>
  ELSE LET k == CHOOSE i \in 1..Len(s) : s[i] = sep /\ \A j \in 1..(i - 1) : s[j] # sep
       IN <<SubSeq(s, 1, k - 1)>> \o Split(SubSeq(s, k + 1, Len(s)), sep)

\* the loop of parsePairs over the chunks; log.Fatalf ends the run
RECURSIVE parseChunks(_)
parseChunks(chunks) ==
  IF chunks = <<>> THEN [ok |-> TRUE, out |-> <<>>]
  ELSE LET chunk == TrimSpace(Head(chunks))
           rest == parseChunks(Tail(chunks))
           parts == Split(chunk, "-")
       IN IF chunk = <<>> THEN rest
          ELSE IF Len(parts) # 2 THEN [ok |-> FALSE, out |-> <<>>]
          ELSE LET a == StrconvAtoi(TrimSpace(parts[1]))
                   b == StrconvAtoi(TrimSpace(parts[2]))
               IN IF ~a.ok \/ ~b.ok THEN [ok |-> FALSE, out |-> <<>>]
                  ELSE IF ~rest.ok THEN rest
                  ELSE [ok |-> TRUE, out |-> <<<<a.val, b.val>>>> \o rest.out]

\* variant: an entry that does not parse is left out
RECURSIVE parseChunksSkip(_)
parseChunksSkip(chunks) ==
  IF chunks = <<>> THEN [ok |-> TRUE, out |-> <<>>]
  ELSE LET chunk == TrimSpace(Head(chunks))
           rest == parseChunksSkip(Tail(chunks))
           parts == Split(chunk, "-")
       IN IF chunk = <<>> \/ Len(parts) # 2 THEN rest
          ELSE LET a == StrconvAtoi(TrimSpace(parts[1]))
                   b == StrconvAtoi(TrimSpace(parts[2]))
               IN IF ~a.ok \/ ~b.ok THEN rest
                  ELSE [ok |-> TRUE, out |-> <<<<a.val, b.val>>>> \o rest.out]

parsePairsSkip(spec) ==
  IF TrimSpace(spec) = <<>> THEN [ok |-> TRUE, out |-> <<>>]
  ELSE parseChunksSkip(Split(TrimSpace(spec), ","))

parsePairs(spec) ==
  IF TrimSpace(spec) = <<>> THEN [ok |-> TRUE, out |-> <<>>]
  ELSE parseChunks(Split(TrimSpace(spec), ","))

RECURSIVE filterNonEmpty(_)
filterNonEmpty(ss) ==
  IF ss = <<>> THEN <<>>
  ELSE IF TrimSpace(Head(ss)) # <<>>
    THEN <<Head(ss)>> \o filterNonEmpty(Tail(ss))
    ELSE filterNonEmpty(Tail(ss))

\* verses[n] of a Go map: the zero value "" when n is absent
lookup(vs, n) == IF n \in DOMAIN vs THEN vs[n] ELSE <<>>

\* fmt.Sprintf("%d<en dash>%d", a, b); the en dash (U+2013) is one character,
\* written EnDash here
EnDash == "ndash"
compositeLabel(a, b) == Itoa(a) \o <<EnDash>> \o Itoa(b)

\* variant: the second verse's text first
compositeBodyMut(ta, tb) == TrimSpace(Join(filterNonEmpty(<<tb, ta>>), <<" ">>))

compositeBody(ta, tb) == TrimSpace(Join(filterNonEmpty(<<ta, tb>>), <<" ">>))

\* variant: ids counted from 0
entIDOfMut(ents) == Len(ents)

\* entID := len(entities) + 1
entIDOf(ents) == Len(ents) + 1

\* variant: a mapping only for the verses that exist
compositeMappingsMut(entID, a, b) ==
  (IF a \in DOMAIN verses THEN <<<<entID, a>>>> ELSE <<>>)
    \o (IF b \in DOMAIN verses THEN <<<<entID, b>>>> ELSE <<>>)

\* the two mappings of a composite
compositeMappings(entID, a, b) == <<<<entID, a>>, <<entID, b>>>>

\* variant: only the second element of a pair is consumed
consumeMut(used, a, b) == used \cup {b}

\* consumed[a] = true; consumed[b] = true
consume(used, a, b) == used \cup {a, b}

\* sort.Ints over a set of keys
RECURSIVE sortInts(_)
sortInts(S) ==
  IF S = {} THEN <<>>
  ELSE LET m == CHOOSE x \in S : \A y \in S : x <= y
       IN <<m>> \o sortInts(S \ {m})

\* the keys of the singles pass
remainingKeys(vs, used) == sortInts({k \in DOMAIN vs : k \notin used})

\* pairs := parsePairs(*composites)
ParsePairs(spec) ==
  /\ pc = "pairs"
  /\ LET r == parsePairs(spec)
     IN IF r.ok
          THEN pc' = "composites" /\ pairs' = r.out
          ELSE pc' = "fatal" /\ UNCHANGED pairs
  /\ composites' = spec
  /\ UNCHANGED <<pageMin, pageMax, verses, stitchVars, extVars, pi, consumed, keys, ki,
                 entities, mappings>>

\* one iteration of the loop over the pairs
Composite ==
  /\ pc = "composites"
  /\ pi <= Len(pairs)
  /\ LET a == pairs[pi][1]
         b == pairs[pi][2]
         entID == entIDOf(entities)
     IN IF a \notin DOMAIN verses /\ b \notin DOMAIN verses
          THEN UNCHANGED <<entities, mappings, consumed>>
          ELSE /\ entities' = Append(entities,
                    [id |-> entID, label |-> compositeLabel(a, b),
                     body |-> compositeBody(lookup(verses, a), lookup(verses, b))])
               /\ mappings' = mappings \o compositeMappings(entID, a, b)
               /\ consumed' = consume(consumed, a, b)
  /\ pi' = pi + 1
  /\ UNCHANGED <<pc, pageMin, pageMax, verses, stitchVars, extVars, pairs, keys, ki,
                 composites>>

\* the keys not consumed, sorted
CollectKeys ==
  /\ pc = "composites"
  /\ pi > Len(pairs)
  /\ keys' = remainingKeys(verses, consumed)
  /\ ki' = 1
  /\ pc' = "singles"
  /\ UNCHANGED <<pageMin, pageMax, verses, stitchVars, extVars, pairs, pi, consumed,
                 entities, mappings, composites>>

\* one iteration of the loop over the remaining single verses
Single ==
  /\ pc = "singles"
  /\ ki <= Len(keys)
  /\ LET k == keys[ki]
         entID == entIDOf(entities)
     IN /\ entities' = Append(entities,
               [id |-> entID, label |-> Itoa(k), body |-> verses[k]])
        /\ mappings' = Append(mappings, <<entID, k>>)
  /\ ki' = ki + 1
  /\ UNCHANGED <<pc, pageMin, pageMax, verses, stitchVars, extVars, pairs, pi, consumed,
                 keys, composites>>

\* the entities and mappings are handed to the CSV writers
WriteCSV ==
  /\ pc = "singles"
  /\ ki > Len(keys)
  /\ pc' = "done"
  /\ UNCHANGED <<pageMin, pageMax, verses, stitchVars, asmVars, extVars>>

\* ------------------------------------------------- the -pairs flag values
\* the specification string of a list of pairs, "A-B,C-D"
RECURSIVE formatPairs(_)
formatPairs(ps) ==
  IF ps = <<>> THEN <<>>
  ELSE LET one == Itoa(ps[1][1]) \o <<"-">> \o Itoa(ps[1][2])
       IN IF Len(ps) = 1 THEN one ELSE one \o <<",">> \o formatPairs(Tail(ps))

VerseNums == 1..MaxVerse
PairNums == 1..MaxPairNum
PairLists == UNION {[1..n -> PairNums \X PairNums] : n \in 0..MaxPairs}
WellFormedSpecs == {formatPairs(ps) : ps \in PairLists}
OtherSpecs ==
  { <<" ">>,
    <<" ", "1", " ", "-", " ", "2", " ", ",", ",", "+", "2", "-", "3", " ">>,
    <<"1">>,
    <<"1", "-", "2", "-", "3">>,
    <<"1", "-", "a">>,
    <<"1", "-", "2", ",", "x">>,
    <<"-", "1", "-", "2">>,
    <<"1", "\t", "-", "2">>,
    <<"\n", "1", "-", "2", NBSP>>,
    <<"1", "-">> \o MaxIntDigits,
    <<"1", "-">> \o MinIntDigits,
    <<"1", "-">> \o MaxUintDigits \o <<"0", "x">>,
    <<"1", "-", "1", "0", "0", "0", "0", "0", "0", "0", "0", "0", "0", "0", "0",
      "0", "0", "0", "0", "0", "0", "0", "0">> }
AllPairSpecs == WellFormedSpecs \cup OtherSpecs
FewPairSpecs ==
  { <<>>, <<"1", "-", "2">>, <<"2", "-", "1", ",", "1", "-", "2">>,
    <<"1", "-", "1">>, <<"1", "-", "2", ",", ",", "2", "-", "3">>, <<"1", "-">> }

\* verse maps the stitcher can leave behind; the last key is the one a
\* verse number beyond the int range is stored under
VerseTexts == {<<"1", "a">>, <<"1", "a", ",", " ", "2">>}
VerseMaps ==
  UNION {[K -> VerseTexts] : K \in (SUBSET VerseNums) \cup {{MaxInt}, {1, MaxInt}}}

Init ==
  /\ pc = "pages"
  /\ \E w \in Windows : pageMin = w[1] /\ pageMax = w[2]
  /\ verses = EmptyMap
  /\ title = NoTitle
  /\ leftCut = 0 /\ footCut = 0
  /\ lb = NoBox /\ ws = <<>> /\ ln = NoLine
  /\ currentNum = Nil /\ buf = <<>> /\ prevOpen = Nil
  /\ nPages = 0 /\ nLines = 0 /\ nWords = 0
  /\ pairs = <<>> /\ pi = 1 /\ consumed = {} /\ keys = <<>> /\ ki = 1
  /\ entities = <<>> /\ mappings = <<>> /\ composites = <<>>
  /\ ExtIdle

NextStitch ==
  \/ \E t \in PageTitles : PageEnter(t)
  \/ PageFilter
  \/ \E t \in LineTitles : Line(t)
  \/ \E w \in RawWords : Word(w)
  \/ EndLine
  \/ Stitch
  \/ EndPage
  \/ EndPages

NextAsm ==
  \/ \E spec \in AllPairSpecs : ParsePairs(spec)
  \/ Composite
  \/ CollectKeys
  \/ Single
  \/ WriteCSV

Next ==
  \/ NextStitch
  \/ \E spec \in FewPairSpecs : ParsePairs(spec)
  \/ Composite
  \/ CollectKeys
  \/ Single
  \/ WriteCSV

\* the whole run of main
Spec == Init /\ [][Next]_vars

\* ------------------------------------------- the stitch loop on any line
\* one iteration of the stitch loop, on a third page that has a cleaned
\* line to stitch: the verse map is what earlier pages left, a verse may be
\* open with or without words, and the line's first word may be a numeral
\* of twenty digits, beyond the int range.  Every word text, in the line
\* and in the buffer, is one the word callback keeps: trimmed and not
\* empty.  The counters that bound the document play no part here.
LongNumeral == [i \in 1..20 |-> "9"]
LoopTexts == {<<"1">>, <<"0", "2">>, LongNumeral, <<"1", "a">>, <<"a", "\t", ",">>}
LoopWords == [x : {2, 3}, t : LoopTexts]
LoopLines ==
  { [b |-> [x0 |-> 0, y0 |-> 10, x1 |-> 9, y1 |-> 20], ws |-> w] :
      w \in { v \in UNION {[1..n -> LoopWords] : n \in 1..2} :
                \A i \in 1..(Len(v) - 1) : v[i].x <= v[i + 1].x } }
LoopMaps == UNION {[K -> {<<"1", "a">>}] : K \in SUBSET {1, MaxInt}}

InitLoop ==
  /\ pc = "stitch"
  /\ pageMin = 2 /\ pageMax = 2
  /\ verses \in LoopMaps
  /\ title = NoTitle
  /\ leftCut = 2 /\ footCut = 82
  /\ lb = NoBox /\ ws = <<>>
  /\ ln \in LoopLines
  /\ currentNum \in {Nil, 1, MaxInt}
  /\ buf \in {<<>>, <<<<"a">>>>, <<<<"b", "\n", ".">>, <<"c">>, <<",">>>>}
  /\ prevOpen = Nil
  /\ nPages = 0 /\ nLines = 0 /\ nWords = 0
  /\ pairs = <<>> /\ pi = 1 /\ consumed = {} /\ keys = <<>> /\ ki = 1
  /\ entities = <<>> /\ mappings = <<>> /\ composites = <<>>
  /\ ExtIdle

NextLoop == Stitch

SpecLoop == InitLoop /\ [][NextLoop]_vars

\* the entity assembler alone, started on any verse map
InitAsm ==
  /\ pc = "pairs"
  /\ pageMin = 2 /\ pageMax = 2
  /\ verses \in VerseMaps
  /\ title = NoTitle
  /\ leftCut = 0 /\ footCut = 0
  /\ lb = NoBox /\ ws = <<>> /\ ln = NoLine
  /\ currentNum = Nil /\ buf = <<>> /\ prevOpen = Nil
  /\ nPages = 0 /\ nLines = 0 /\ nWords = 0
  /\ pairs = <<>> /\ pi = 1 /\ consumed = {} /\ keys = <<>> /\ ki = 1
  /\ entities = <<>> /\ mappings = <<>> /\ composites = <<>>
  /\ ExtIdle

SpecAsm == InitAsm /\ [][NextAsm]_vars

\* the page pass with the page callback in its two phases: the lines are
\* collected first and stitched afterwards
InitGeom ==
  /\ pc = "pages"
  /\ pageMin = 2 /\ pageMax = 2
  /\ verses = EmptyMap
  /\ title = NoTitle
  /\ leftCut = 0 /\ footCut = 0
  /\ lb = NoBox /\ ws = <<>> /\ ln = NoLine
  /\ currentNum = Nil /\ buf = <<>> /\ prevOpen = Nil
  /\ nPages = 0 /\ nLines = 0 /\ nWords = 0
  /\ pairs = <<>> /\ pi = 1 /\ consumed = {} /\ keys = <<>> /\ ki = 1
  /\ entities = <<>> /\ mappings = <<>> /\ composites = <<>>
  /\ ExtIdle

NextGeom ==
  \/ \E t \in GeomPageTitles : PageEnter(t)
  \/ PageStart
  \/ \E t \in GeomLineTitles : LineEnter(t)
  \/ LineFilter
  \/ \E w \in GeomWords : WordEnter(w)
  \/ WordFilter
  \/ LineDone
  \/ StitchStart
  \/ StitchLine
  \/ PageDone
  \/ EndPages

SpecGeom == InitGeom /\ [][NextGeom]_vars

\* the extractor's variables at rest, for the specifications of single
\* functions
MainIdle ==
  /\ pageMin = 2 /\ pageMax = 2
  /\ verses = EmptyMap
  /\ title = NoTitle
  /\ leftCut = 0 /\ footCut = 0
  /\ lb = NoBox /\ ws = <<>> /\ ln = NoLine
  /\ currentNum = Nil /\ buf = <<>> /\ prevOpen = Nil
  /\ nPages = 0 /\ nLines = 0 /\ nWords = 0
  /\ pairs = <<>> /\ pi = 1 /\ consumed = {} /\ keys = <<>> /\ ki = 1
  /\ entities = <<>> /\ mappings = <<>> /\ composites = <<>>
mainVars == <<pageMin, pageMax, verses, stitchVars, asmVars>>

\* joinWithSpaces called on any sequence of tokens
JoinWithSpaces ==
  /\ pc = "join"
  /\ joined' = joinWithSpaces(toks)
  /\ pc' = "joined"
  /\ UNCHANGED <<mainVars, geomVars, toks, statusVars, posterVars>>

InitJoin ==
  /\ pc = "join"
  /\ MainIdle
  /\ GeomIdle
  /\ toks \in TokSeqs
  /\ joined = <<>>
  /\ StatusIdle
  /\ PosterIdle

NextJoin == JoinWithSpaces

SpecJoin == InitJoin /\ [][NextJoin]_vars

\* ------------------------------------------------ the poster's status text
\* runes that are not ASCII are written as atoms: U+2014, U+00FC, U+2026
EmDash == "mdash"
UUml == "uuml"
Ellipsis == "hellip"

attribution ==
  <<EmDash, " ", "D", "h", "a", "m", "m", "a", "p", "a", "d", "a", " ",
    "(", "F", ".", " ", "M", "a", "x", " ", "M", UUml, "l", "l", "e", "r",
    ")">>
hashtags ==
  <<"#", "B", "u", "d", "d", "h", "i", "s", "m", " ", "#", "D", "h", "a",
    "m", "m", "a", "p", "a", "d", "a", " ", "#", "B", "u", "d", "d", "h",
    "a">>
maxLen == 280

runeLen(s) == Len(s)
\* rs[:n] with n below 0 is a run-time panic
SliceBoundsPanic == "panic: runtime error: slice bounds out of range"
truncateRunes(s, n) ==
  IF n >= Len(s) THEN s
  ELSE IF n < 0 THEN SliceBoundsPanic
  ELSE SubSeq(s, 1, n)

\* fmt.Sprintf("Verse %s <em dash> ", label)
headerOf(label) == <<"V", "e", "r", "s", "e", " ">> \o label \o <<" ", EmDash, " ">>
tail == <<" ">> \o attribution \o <<" ">> \o hashtags

formatStatus(label, body) ==
  LET header == headerOf(label)
      b == TrimSpace(body)
      text == header \o b \o tail
      avail0 == maxLen - runeLen(header) - runeLen(tail) - runeLen(<<Ellipsis>>)
      avail == IF avail0 < 20 THEN 20 ELSE avail0
  IN IF runeLen(text) <= maxLen
       THEN text
       ELSE header \o truncateRunes(b, avail) \o <<Ellipsis>> \o tail

\* labels and bodies formatStatus is called with: the labels of a verse and
\* of a composite, and labels and bodies around the lengths at which the
\* text is cut
Rep(c, n) == [i \in 1..n |-> c]
LabelLens == {191, 192, 230}
BodyLens == {0, 1, 19, 20, 21, 22, 150, 206, 207, 208, 210, 211, 212, 300}
StatusLabels ==
  {<<"1">>, <<"5", "8", EnDash, "5", "9">>} \cup {Rep("9", n) : n \in LabelLens}
StatusBodies ==
  {Rep("x", n) : n \in BodyLens}
    \cup {<<" ">> \o Rep("x", n) \o <<" ", " ">> : n \in BodyLens}
    \cup {<<"\t", NBSP>> \o Rep("x", n) \o <<"\r", "\n">> : n \in BodyLens}

\* formatStatus called on any label and body
FormatStatus ==
  /\ pc = "format"
  /\ status' = formatStatus(fsLabel, fsBody)
  /\ pc' = "formatted"
  /\ UNCHANGED <<mainVars, geomVars, joinVars, fsLabel, fsBody, posterVars>>

InitStatus ==
  /\ pc = "format"
  /\ MainIdle
  /\ GeomIdle
  /\ JoinIdle
  /\ fsLabel \in StatusLabels
  /\ fsBody \in StatusBodies
  /\ status = <<>>
  /\ PosterIdle

NextStatus == FormatStatus

SpecStatus == InitStatus /\ [][NextStatus]_vars

\* --------------------------------------------------------------- the poster
\* The database is taken to answer; the calls to X may fail.
TextIds == 1..MaxTexts
\* the rows of the images table of one text, for each whether the file can
\* be read: none, one, and as many as MaxImages with all files readable or
\* all but the last
ImageLists ==
  { <<>>, <<TRUE>>, <<FALSE>>,
    [i \in 1..MaxImages |-> TRUE], [i \in 1..MaxImages |-> i < MaxImages] }
\* LIMIT 4 of the image query, and paths[:4] of uploadImages
ImageCap == 4
capFour(paths) == IF Len(paths) > ImageCap THEN SubSeq(paths, 1, ImageCap) ELSE paths
\* t.Images: the rows the image query returns
textImages(id) == capFour(images[id])
TextRow(id, p) ==
  [label |-> Itoa(id), body |-> <<"x">>, posted |-> p,
   xPostID |-> IF p THEN 0 ELSE Nil]
TextTables == UNION {{[id \in K |-> TextRow(id, P[id])] : P \in [K -> BOOLEAN]}
                     : K \in SUBSET TextIds}
TweetOutcomes == {"created", "rejected", "created, reply unreadable"}

\* variant: every row is a candidate
unpostedAll(tx) == DOMAIN tx

\* WHERE posted_at IS NULL
unposted(tx) == {id \in DOMAIN tx : ~tx[id].posted}

\* the configuration is read and the credentials are required unless
\* DRY_RUN=1
PosterEnv ==
  /\ pc = "start"
  /\ IF ~dryRun /\ ~creds
       THEN pc' = "exit1" /\ perr' = "missing required env var"
       ELSE pc' = "select" /\ UNCHANGED perr
  /\ UNCHANGED <<mainVars, geomVars, joinVars, statusVars, dryRun, creds, texts,
                 images, sel, tweets, uploads, ui, runs>>

\* getRandomUnpostedTextWithImages: ORDER BY RANDOM() LIMIT 1 over the rows
\* not posted, then ensureFile on each of its first four images
Select ==
  /\ pc = "select"
  /\ IF unposted(texts) = {}
       THEN /\ pc' = "exit1"
            /\ perr' = "no unposted texts remain"
            /\ UNCHANGED sel
       ELSE \E id \in unposted(texts) :
              IF \E i \in 1..Len(textImages(id)) : ~textImages(id)[i]
                THEN /\ pc' = "exit1"
                     /\ perr' = "image missing or unreadable"
                     /\ UNCHANGED sel
                ELSE /\ pc' = "status"
                     /\ sel' = id
                     /\ UNCHANGED perr
  /\ UNCHANGED <<mainVars, geomVars, joinVars, statusVars, dryRun, creds, texts,
                 images, tweets, uploads, ui, runs>>

\* variant: the preview does not end the run
afterPreviewGoesOn(dry) == "upload"

\* if dryRun { ...; os.Exit(0) }
afterPreview(dry) == IF dry THEN "exit0" ELSE "upload"

\* status := formatStatus(t.Label, t.Body), and the dry-run preview
Preview ==
  /\ pc = "status"
  /\ status' = formatStatus(texts[sel].label, texts[sel].body)
  /\ pc' = afterPreview(dryRun)
  /\ ui' = 1
  /\ UNCHANGED <<mainVars, geomVars, joinVars, fsLabel, fsBody, dryRun, creds,
                 texts, images, sel, perr, tweets, uploads, runs>>

\* uploadImages: one uploadMediaSimple call
Upload(ok) ==
  /\ pc = "upload"
  /\ ui <= Len(capFour(textImages(sel)))
  /\ uploads' = uploads + 1
  /\ IF ok
       THEN ui' = ui + 1 /\ UNCHANGED <<pc, perr>>
       ELSE pc' = "exit1" /\ perr' = "upload failed" /\ UNCHANGED ui
  /\ UNCHANGED <<mainVars, geomVars, joinVars, statusVars, dryRun, creds, texts,
                 images, sel, tweets, runs>>

\* uploadImages returns the media ids
Uploaded ==
  /\ pc = "upload"
  /\ ui > Len(capFour(textImages(sel)))
  /\ pc' = "tweet"
  /\ UNCHANGED <<mainVars, geomVars, joinVars, statusVars, dryRun, creds, texts,
                 images, sel, perr, tweets, uploads, ui, runs>>

\* variant: the error of createTweetV2 is not looked at
afterTweetUnchecked(outcome) == "mark"

\* tweetID, err := createTweetV2(...); must(err)
afterTweet(outcome) == IF outcome = "created" THEN "mark" ELSE "exit1"

\* createTweetV2: the tweet is created and its id returned, or the request
\* is rejected, or the tweet is created and the reply cannot be decoded
Tweet(outcome) ==
  /\ pc = "tweet"
  /\ tweets' = IF outcome = "rejected" THEN tweets ELSE Append(tweets, sel)
  /\ pc' = afterTweet(outcome)
  /\ perr' = IF outcome = "created" THEN perr ELSE "create tweet failed"
  /\ UNCHANGED <<mainVars, geomVars, joinVars, statusVars, dryRun, creds, texts,
                 images, sel, uploads, ui, runs>>

\* UPDATE texts SET posted_at = CURRENT_TIMESTAMP, x_post_id = ? WHERE id = ?
MarkPosted ==
  /\ pc = "mark"
  /\ texts' = [texts EXCEPT ![sel] = [@ EXCEPT !.posted = TRUE, !.xPostID = Len(tweets)]]
  /\ pc' = "exit0"
  /\ UNCHANGED <<mainVars, geomVars, joinVars, statusVars, dryRun, creds,
                 images, sel, perr, tweets, uploads, ui, runs>>

\* the poster is run again over the same database
NextRun(d, c) ==
  /\ pc \in {"exit0", "exit1"}
  /\ runs < MaxRuns
  /\ pc' = "start"
  /\ dryRun' = d
  /\ creds' = c
  /\ sel' = Nil
  /\ perr' = ""
  /\ status' = <<>>
  /\ ui' = 1
  /\ runs' = runs + 1
  /\ UNCHANGED <<mainVars, geomVars, joinVars, fsLabel, fsBody, texts, images,
                 tweets, uploads>>

InitPoster ==
  /\ pc = "start"
  /\ MainIdle
  /\ GeomIdle
  /\ JoinIdle
  /\ StatusIdle
  /\ dryRun \in BOOLEAN
  /\ creds \in BOOLEAN
  /\ texts \in TextTables
  /\ images \in [DOMAIN texts -> ImageLists]
  /\ sel = Nil /\ perr = "" /\ tweets = <<>> /\ uploads = 0 /\ ui = 1 /\ runs = 1

NextPoster ==
  \/ PosterEnv
  \/ Select
  \/ Preview
  \/ \E ok \in BOOLEAN : Upload(ok)
  \/ Uploaded
  \/ \E outcome \in TweetOutcomes : Tweet(outcome)
  \/ MarkPosted
  \/ \E d \in BOOLEAN, c \in BOOLEAN : NextRun(d, c)

SpecPoster == InitPoster /\ [][NextPoster]_vars

\* =================================================================
\* Properties of the entity assembler (checked under SpecAsm)
\* =================================================================
\* helpers of the properties
OnlyDigits(t) == Len(t) > 0 /\ \A i \in 1..Len(t) : t[i] \in Digits
IsCompositeLabel(l) == \E i \in 1..Len(l) : l[i] = EnDash
RECURSIVE DecLabel(_)
DecLabel(n) ==
  IF n = MaxInt THEN MaxIntDigits
  ELSE IF n < 10 THEN <<DigitChar(n)>> ELSE DecLabel(n \div 10) \o <<DigitChar(n % 10)>>
MappingsOf(n) == {i \in 1..Len(mappings) : mappings[i][2] = n}
EntityOfMapping(i) == entities[mappings[i][1]]

\* C1: once the run is done, every verse number of the verse map appears
\* in exactly one emitted mapping, whatever pairs were configured (pairs
\* sharing a verse, repeated pairs and a pair A-A included).
C1_EachVerseInExactlyOneMapping ==
  pc = "done" => \A n \in DOMAIN verses : Cardinality(MappingsOf(n)) = 1

\* C2: the ids of the emitted entities are 1..N in emission order, every
\* composite precedes every singleton, and singleton ids increase with the
\* verse number.
C2_IdsContiguousCompositesFirst ==
  /\ \A i \in 1..Len(entities) : entities[i].id = i
  /\ \A i \in 1..Len(mappings) : mappings[i][1] \in 1..Len(entities)
  /\ \A i, j \in 1..Len(entities) :
       (IsCompositeLabel(entities[i].label) /\ ~IsCompositeLabel(entities[j].label))
         => entities[i].id < entities[j].id
  /\ \A i, j \in 1..Len(entities) :
       ( /\ ~IsCompositeLabel(entities[i].label)
         /\ ~IsCompositeLabel(entities[j].label)
         /\ atoi(entities[i].label) < atoi(entities[j].label) )
         => entities[i].id < entities[j].id

\* a finished run in which the first pair was skipped (neither verse exists),
\* the second pair gave the composite with id 1 and a singleton follows
C2_Witness ==
  /\ pc = "done"
  /\ Len(pairs) = 2
  /\ pairs[1][1] \notin DOMAIN verses /\ pairs[1][2] \notin DOMAIN verses
  /\ Len(entities) = 2
  /\ IsCompositeLabel(entities[1].label)
  /\ ~IsCompositeLabel(entities[2].label)

\* C3 as claimed: when a pair (A,B) is configured and only A exists, no
\* emitted entity and no emitted mapping carries verse number B.
C3_AbsentSideNowhere ==
  pc = "done" =>
    \A p \in 1..Len(pairs) :
      (pairs[p][1] \in DOMAIN verses /\ pairs[p][2] \notin DOMAIN verses)
        => /\ MappingsOf(pairs[p][2]) = {}
           /\ \A e \in 1..Len(entities) :
                ~( OnlyDigits(entities[e].label)
                   /\ atoi(entities[e].label) = pairs[p][2] )

\* C3 amended: when a pair (A,B) is configured and only A exists, no
\* singleton entity is emitted for B, and every mapping that carries B
\* belongs to a composite; the composite of the pair does carry the
\* mapping (entity, B).
C3_AbsentSideOnlyInComposite ==
  pc = "done" =>
    \A p \in 1..Len(pairs) :
      (pairs[p][1] \in DOMAIN verses /\ pairs[p][2] \notin DOMAIN verses)
        => /\ \A e \in 1..Len(entities) :
                ~( OnlyDigits(entities[e].label)
                   /\ atoi(entities[e].label) = pairs[p][2] )
           /\ \A i \in MappingsOf(pairs[p][2]) :
                IsCompositeLabel(EntityOfMapping(i).label)
           /\ \E i \in MappingsOf(pairs[p][2]) :
                /\ EntityOfMapping(i).label
                     = DecLabel(pairs[p][1]) \o <<EnDash>> \o DecLabel(pairs[p][2])
                /\ i > 1 /\ mappings[i - 1] = <<mappings[i][1], pairs[p][1]>>

\* a finished run with one pair whose first verse exists and whose second
\* does not
C3_Witness ==
  /\ pc = "done"
  /\ Len(pairs) = 1
  /\ pairs[1][1] \in DOMAIN verses
  /\ pairs[1][2] \notin DOMAIN verses
  /\ Len(entities) >= 1

\* C4: the composite of a pair (A,B) with at least one side in the verse
\* map is emitted, and its body is the text of the one present verse, or
\* text(A), one space, text(B) when both exist.
C4_CompositeBody ==
  [][ (pc = "composites" /\ pi <= Len(pairs)) =>
        LET a == pairs[pi][1]
            b == pairs[pi][2]
            hasA == a \in DOMAIN verses
            hasB == b \in DOMAIN verses
            body == entities'[Len(entities')].body
        IN IF ~hasA /\ ~hasB THEN entities' = entities
           ELSE /\ Len(entities') = Len(entities) + 1
                /\ SubSeq(entities', 1, Len(entities)) = entities
                /\ (hasA /\ ~hasB) => body = verses[a]
                /\ (~hasA /\ hasB) => body = verses[b]
                /\ (hasA /\ hasB) => body = verses[a] \o <<" ">> \o verses[b]
    ]_vars

\* a composite built from two existing verses with different texts, the
\* pair given with the larger verse number first
C4_Witness ==
  /\ pc = "composites"
  /\ pi = 2
  /\ pairs[1][1] > pairs[1][2]
  /\ pairs[1][1] \in DOMAIN verses /\ pairs[1][2] \in DOMAIN verses
  /\ verses[pairs[1][1]] # verses[pairs[1][2]]
  /\ Len(entities) = 1

\* C5: a verse number mapped to a composite entity is never also mapped to
\* a singleton entity.
C5_ConsumedNotSingle ==
  \A i, j \in 1..Len(mappings) :
    ( /\ IsCompositeLabel(EntityOfMapping(i).label)
      /\ ~IsCompositeLabel(EntityOfMapping(j).label) )
      => mappings[i][2] # mappings[j][2]

\* a finished run with a composite built from one existing side only,
\* followed by a singleton
C5_Witness ==
  /\ pc = "done"
  /\ Len(pairs) = 1
  /\ pairs[1][1] \in DOMAIN verses
  /\ pairs[1][2] \notin DOMAIN verses
  /\ Len(entities) = 2
  /\ ~IsCompositeLabel(entities[2].label)

\* =================================================================
\* Properties of the verse stitcher and the page filter (checked under Spec)
\* =================================================================
\* helpers of the properties
RestTexts(l) == [i \in 1..(Len(l.ws) - 1) |-> l.ws[i + 1].t]
AllTexts(l) == [i \in 1..Len(l.ws) |-> l.ws[i].t]
EndsWith(s, t) == Len(t) <= Len(s) /\ SubSeq(s, Len(s) - Len(t) + 1, Len(s)) = t
\* the cleaned line about to be stitched opens a verse
LineOpensVerse == ln.ws[1].x <= leftCut /\ OnlyDigits(ln.ws[1].t)
\* a step that runs flush: a verse-start line is stitched, or the page ends
FlushStep == (pc = "stitch" /\ LineOpensVerse) \/ (pc = "lines" /\ pc' = "pages")

\* C6 as claimed: a cleaned line starts a new verse exactly when its first
\* word lies at or left of the left-margin cutoff and consists of decimal
\* digits only; then the open verse is flushed into the verse map, the state
\* becomes Open(n) for the integer n the digits write, and the buffer holds
\* the line's words without the number token.  Any other line is appended
\* whole and opens or flushes nothing.
C6_VerseStart ==
  [][ pc = "stitch" =>
        IF LineOpensVerse
          THEN /\ Itoa(currentNum') = StripZeros(ln.ws[1].t)
               /\ buf' = RestTexts(ln)
               /\ IF currentNum # Nil /\ buf # <<>>
                    THEN /\ currentNum \in DOMAIN verses'
                         /\ EndsWith(verses'[currentNum], joinWithSpaces(buf))
                    ELSE verses' = verses
          ELSE /\ currentNum' = currentNum
               /\ buf' = buf \o AllTexts(ln)
               /\ verses' = verses
    ]_vars

\* C7: while no verse is open, no step changes the verse map, and the step
\* that opens the next verse leaves in the buffer only the words of the
\* opening line after its number: the words of the discarded lines reach no
\* verse text.
C7_OrphanDiscarded ==
  [][ (pc \in {"stitch", "lines"} /\ currentNum = Nil) =>
        /\ verses' = verses
        /\ pc' \in {"lines", "words", "pages"}
        /\ currentNum' # Nil => buf' = RestTexts(ln)
    ]_vars

\* words of a line without verse number are buffered with no verse open,
\* and a verse-start line is about to be stitched
C7_Witness ==
  /\ pc = "stitch"
  /\ currentNum = Nil
  /\ buf # <<>>
  /\ LineOpensVerse
  /\ Len(ln.ws) > 1

\* C8: a flush of verse n with buffered words stores the joined words as
\* the text of n when n has no text yet, and otherwise the previous text,
\* one space and the joined words; no other verse changes.
C8_FlushAppends ==
  [][ (FlushStep /\ currentNum # Nil /\ buf # <<>>) =>
        /\ DOMAIN verses' = DOMAIN verses \cup {currentNum}
        /\ \A k \in DOMAIN verses : k # currentNum => verses'[k] = verses[k]
        /\ verses'[currentNum] =
             IF currentNum \in DOMAIN verses
               THEN verses[currentNum] \o <<" ">> \o joinWithSpaces(buf)
               ELSE joinWithSpaces(buf)
    ]_vars

\* a text that only two flushes of the same verse can produce: a space
\* before a comma
C8_Witness ==
  \E n \in DOMAIN verses : verses[n] = <<"1", "a", " ", ",">>

\* C9 as claimed: when the previous processed page ended with verse n open
\* and the current page has buffered words before starting any verse, the
\* next flush appends those words to the text of verse n.
C9_ContinuationAcrossPages ==
  [][ (FlushStep /\ prevOpen # Nil /\ buf # <<>>) =>
        /\ prevOpen \in DOMAIN verses'
        /\ verses'[prevOpen] # lookup(verses, prevOpen)
        /\ EndsWith(verses'[prevOpen], joinWithSpaces(buf))
    ]_vars

\* C10: a page whose page number is present and outside [pageMin, pageMax]
\* is left by the filter with the verse map unchanged and none of its
\* lines read; a page with a bounding box and no page number is processed.
C10_PageWindow ==
  [][ pc = "page" =>
        LET hasBox == Len(title.bbox) >= 4
            numbered == Len(title.ppageno) >= 1
            pp == title.ppageno[1]
        IN /\ (numbered /\ (pp < pageMin \/ pp > pageMax))
                => (pc' = "pages" /\ verses' = verses /\ nLines' = nLines
                    /\ currentNum' = currentNum /\ buf' = buf)
           /\ (hasBox /\ ~numbered) => pc' = "lines"
           /\ (hasBox /\ numbered /\ pageMin <= pp /\ pp <= pageMax) => pc' = "lines"
    ]_vars

\* the filter is about to judge a page with a bounding box whose number is
\* above the window, after an earlier page has left verses in the map
C10_Witness ==
  /\ pc = "page"
  /\ Len(title.bbox) >= 4
  /\ Len(title.ppageno) >= 1
  /\ title.ppageno[1] > pageMax
  /\ pageMin <= pageMax
  /\ DOMAIN verses # {}

\* C13: every key of the verse map is a non-negative integer and every
\* stored text holds a character that is not white space; a flush of an open
\* verse with no buffered words leaves the verse map as it was.
C13_KeysAndTextsWellFormed ==
  [][ /\ \A n \in DOMAIN verses' :
           /\ n \in Nat
           /\ \E i \in 1..Len(verses'[n]) : verses'[n][i] \notin WhiteSpace
      /\ (FlushStep /\ currentNum # Nil /\ buf = <<>>) => verses' = verses
    ]_vars

\* a verse-number line stands alone: its verse is open without any text and
\* without buffered words when the next verse-number line is stitched
C13_Witness ==
  /\ pc = "stitch"
  /\ currentNum # Nil
  /\ currentNum \notin DOMAIN verses
  /\ buf = <<>>
  /\ LineOpensVerse

\* C19: the verse map only grows: a step that changes it is a flush step, no
\* verse number leaves it, and the new text of a verse starts with the old.
IsPrefix(p, t) == Len(p) <= Len(t) /\ SubSeq(t, 1, Len(p)) = p
C19_VerseMapOnlyGrows ==
  [][ /\ DOMAIN verses \subseteq DOMAIN verses'
      /\ \A n \in DOMAIN verses : IsPrefix(verses[n], verses'[n])
      /\ (verses' # verses) => FlushStep
    ]_vars

\* a text that was stored by one flush and extended by a later one: joining
\* within one flush would have removed the space before the second comma
C19_Witness ==
  \E n \in DOMAIN verses : verses[n] = <<",", " ", ",">>

\* =================================================================
\* The -pairs flag (checked under SpecAsm)
\* =================================================================
\* helpers: an integer numeral, an entry "A-B" of two integer numerals, and
\* the comma-separated entries of the flag value (none when it is blank)
IsIntNumeral(u) ==
  /\ Len(u) >= 1
  /\ LET d == IF u[1] \in {"+", "-"} THEN Tail(u) ELSE u
     IN Len(d) >= 1 /\ \A i \in 1..Len(d) : d[i] \in Digits
WellFormedEntry(e) ==
  LET c == TrimSpace(e)
  IN \E k \in 1..Len(c) :
       /\ c[k] = "-"
       /\ IsIntNumeral(TrimSpace(SubSeq(c, 1, k - 1)))
       /\ IsIntNumeral(TrimSpace(SubSeq(c, k + 1, Len(c))))
IsBlank(e) == \A i \in 1..Len(e) : e[i] \in WhiteSpace
EntriesOf(spec) == IF IsBlank(spec) THEN <<>> ELSE Split(spec, ",")
PairsAccepted == pc \in {"composites", "singles", "done"}

\* C15 as claimed: once the flag value has been accepted every one of its
\* entries, an empty one included, is two integers joined by a hyphen, and an
\* aborted run has output no entity and no mapping.
C15_MalformedEntryAborts ==
  /\ PairsAccepted =>
       \A i \in 1..Len(EntriesOf(composites)) : WellFormedEntry(EntriesOf(composites)[i])
  /\ pc = "fatal" => entities = <<>> /\ mappings = <<>>

\* C15 amended: once the flag value has been accepted every entry that is
\* not blank is two integers joined by a hyphen and has given one pair, the
\* blank entries having been skipped; an aborted run has output no entity
\* and no mapping.
C15_NonBlankMalformedEntryAborts ==
  /\ PairsAccepted =>
       LET E == EntriesOf(composites)
       IN /\ \A i \in 1..Len(E) : ~IsBlank(E[i]) => WellFormedEntry(E[i])
          /\ Len(pairs) = Cardinality({i \in 1..Len(E) : ~IsBlank(E[i])})
  /\ pc = "fatal" => entities = <<>> /\ mappings = <<>>

\* a run over a verse map with verses was aborted by a flag value whose
\* first entry is well formed and whose second is not
C15_Witness ==
  /\ pc = "fatal"
  /\ DOMAIN verses # {}
  /\ Len(EntriesOf(composites)) = 2
  /\ WellFormedEntry(EntriesOf(composites)[1])
  /\ ~WellFormedEntry(EntriesOf(composites)[2])

\* =================================================================
\* Properties of the line builder (checked under SpecGeom)
\* =================================================================
\* helpers: what the page pass has built so far, and the steps that enter an
\* element or leave it
Built == <<verses, currentNum, buf, lines, li, ws, lb, pb, leftCut, footCut,
           nPages, nLines, nWords>>
HasBox(t) == Len(t.bbox) >= 4
TopY(t) == t.bbox[2]
LeftX(t) == t.bbox[1]
Count(s, e) == Cardinality({i \in 1..Len(s) : s[i] = e})
SameWords(s, t) ==
  /\ Len(s) = Len(t)
  /\ \A i \in 1..Len(s) : Count(s, s[i]) = Count(t, s[i])

\* C11: on a page whose box is a bounding box (its bottom not above its
\* top), a line whose top y is at or below the page top plus 82/100 of the
\* page height is left by the line filter with nothing read from it: no
\* cleaned line is added, so the stitch loop never sees it, and the verse
\* map, the open verse and its buffer are as before.
C11_FootnoteLineDropped ==
  [][ (pc = "line" /\ HasBox(ltitle) /\ pb.y0 <= pb.y1
       /\ 100 * (TopY(ltitle) - pb.y0) >= FootnotePct * (pb.y1 - pb.y0)) =>
        /\ pc' = "lines"
        /\ UNCHANGED Built
    ]_vars

\* the filter is about to judge a line exactly at the cutoff, after a line
\* of the same page that starts a verse was kept
C11_Witness ==
  /\ pc = "line"
  /\ HasBox(ltitle)
  /\ pb.y0 < pb.y1
  /\ 100 * (TopY(ltitle) - pb.y0) = FootnotePct * (pb.y1 - pb.y0)
  /\ lines # <<>>
  /\ startsVerse(lines[1], leftCut)

\* C12: a word with a bbox and a text is dropped by the word filter exactly
\* when its top y is more than 5 above the top y of its line; otherwise it
\* is appended to the words of the line; in both cases the words kept so far
\* stay and the line goes on.
C12_SuperscriptDropped ==
  [][ (pc = "word" /\ HasBox(wel) /\ ~IsBlank(wel.text)) =>
        /\ pc' = "words"
        /\ lb' = lb
        /\ IF lb.y0 - TopY(wel) > 5
             THEN ws' = ws
             ELSE /\ Len(ws') = Len(ws) + 1
                  /\ SubSeq(ws', 1, Len(ws)) = ws
                  /\ ws'[Len(ws')].x = LeftX(wel)
    ]_vars

\* the filter is about to judge a word 6 above its line, after a word of
\* the line (exactly 5 above it) was kept
C12_Witness ==
  /\ pc = "word"
  /\ HasBox(wel)
  /\ ~IsBlank(wel.text)
  /\ lb.y0 - TopY(wel) = 6
  /\ ws # <<>>

\* C16: a page, line or word without four bbox numerals is left by its
\* filter with everything built so far unchanged, back in the loop it was
\* entered from, and entering an element changes nothing that was built: the
\* pass goes on as if the element were not in the document.
C16_BadGeometrySkipped ==
  [][ /\ (pc = "page" /\ ~HasBox(title)) =>
           (pc' = "pages" /\ title' = NoTitle /\ UNCHANGED Built)
      /\ (pc = "line" /\ ~HasBox(ltitle)) =>
           (pc' = "lines" /\ ltitle' = NoLineTitle /\ UNCHANGED Built)
      /\ (pc = "word" /\ ~HasBox(wel)) =>
           (pc' = "words" /\ wel' = NoWord /\ UNCHANGED Built)
      /\ pc' \in {"page", "line", "word"} => UNCHANGED Built
    ]_vars

\* the filter is about to judge a word with a text and no bbox, in a line
\* that has a word already, on a page that follows a page with a verse
C16_Witness ==
  /\ pc = "word"
  /\ ~HasBox(wel)
  /\ ~IsBlank(wel.text)
  /\ ws # <<>>
  /\ DOMAIN verses # {}

\* C20: the words of every cleaned line are in non-decreasing x order and
\* are the words kept from the line; a cleaned line is added at the end of
\* the lines, and the stitch loop takes the lines one after the other in
\* that order, appending the texts of a line's words in the line's order.
C20_WordsSortedLinesInOrder ==
  [][ /\ \A i \in 1..Len(lines') : \A j \in 1..(Len(lines'[i].ws) - 1) :
           lines'[i].ws[j].x <= lines'[i].ws[j + 1].x
      /\ (pc = "words" /\ pc' = "lines" /\ ws # <<>>) =>
           /\ Len(lines') = Len(lines) + 1
           /\ SubSeq(lines', 1, Len(lines)) = lines
           /\ lines'[Len(lines')].b = lb
           /\ SameWords(lines'[Len(lines')].ws, ws)
      /\ (pc = "stitching" /\ li <= Len(lines)) =>
           /\ li' = li + 1
           /\ lines' = lines
           /\ \/ buf' = buf \o wordTexts(lines[li].ws)
              \/ buf' = wordTexts(Tail(lines[li].ws))
    ]_vars

\* the second line of a page lies above the first, and its words were read
\* right to left
C20_Witness ==
  /\ pc = "words"
  /\ Len(lines) = 1
  /\ lines[1].b.y0 > lb.y0
  /\ Len(ws) >= 2
  /\ ws[1].x > ws[2].x

\* =================================================================
\* joinWithSpaces (checked under SpecJoin)
\* =================================================================
\* C14: the string returned by joinWithSpaces is left as it is by the
\* space-before-punctuation fix, and has no white space of the class \s
\* directly before a punctuation mark.
C14_PunctFixIdempotent ==
  pc = "joined" =>
    /\ FixPunct(joined) = joined
    /\ \A i \in 1..(Len(joined) - 1) :
         ~(joined[i] \in ReSpace /\ joined[i + 1] \in Punct)

\* joinWithSpaces has returned for tokens whose joining puts white space
\* before a punctuation mark twice, once as a run of two
C14_Witness ==
  /\ pc = "joined"
  /\ toks = <<<<"a", " ", " ">>, <<",">>, <<",">>>>
  /\ joined = <<"a", ",", ",">>

\* =================================================================
\* formatStatus (checked under SpecStatus)
\* =================================================================
\* C17 as claimed: the status has at most 280 runes and starts with the
\* header of the label; when header, trimmed body and tail together have
\* more than 280 runes the status holds the ellipsis and ends with the tail.
C17_StatusWithinMaxLen ==
  pc = "formatted" =>
    /\ Len(status) <= 280
    /\ IsPrefix(headerOf(fsLabel), status)
    /\ Len(headerOf(fsLabel)) + Len(TrimSpace(fsBody)) + Len(tail) > 280 =>
         /\ \E i \in 1..Len(status) : status[i] = Ellipsis
         /\ EndsWith(status, tail)

\* =================================================================
\* The poster (checked under SpecPoster)
\* =================================================================
\* C18: the selection hands on only a row of the table that is not posted;
\* when no row is unposted (the table is empty or every row is posted) the
\* run ends with the error "no unposted texts remain", and from the
\* selection to the end of that run no media is uploaded, no tweet is
\* created and no row changes.
C18_SelectsOnlyUnposted ==
  [][ /\ (pc = "select" /\ pc' = "status") =>
           (sel' \in DOMAIN texts /\ ~texts[sel'].posted)
      /\ (pc = "select" /\ \A id \in DOMAIN texts : texts[id].posted) =>
           /\ pc' = "exit1"
           /\ perr' = "no unposted texts remain"
           /\ UNCHANGED <<texts, tweets, uploads>>
      /\ perr = "no unposted texts remain" =>
           /\ pc = "exit1"
           /\ UNCHANGED <<texts, tweets, uploads>>
    ]_vars

\* a run has ended with "no unposted texts remain" over a table whose rows
\* are all posted, one of them by an earlier run
C18_Witness ==
  /\ pc = "exit1"
  /\ perr = "no unposted texts remain"
  /\ DOMAIN texts # {}
  /\ tweets # <<>>

\* C21: a row of the texts table changes only in the step that follows the
\* successful creation of the tweet for it in the same run, and then it is
\* the selected row that becomes posted with the id of that tweet; a run
\* that ends for missing credentials, a failed selection, a failed upload or
\* a failed tweet creation has changed no row, and nothing changes one
\* afterwards.
C21_MarkedOnlyAfterTweet ==
  [][ /\ pc' = "mark" =>
           (pc = "tweet" /\ tweets' = Append(tweets, sel) /\ sel' = sel)
      /\ texts' # texts =>
           /\ pc = "mark"
           /\ tweets[Len(tweets)] = sel
           /\ DOMAIN texts' = DOMAIN texts
           /\ \A id \in DOMAIN texts : id # sel => texts'[id] = texts[id]
           /\ ~texts[sel].posted
           /\ texts'[sel].posted
           /\ texts'[sel].xPostID = Len(tweets)
      /\ (pc' = "exit1" \/ pc = "exit1") => texts' = texts
      /\ pc \in {"start", "select", "status", "upload", "tweet"} => texts' = texts
    ]_vars

\* a run has ended in a failed upload after an earlier run had posted a text
C21_Witness ==
  /\ pc = "exit1"
  /\ perr = "upload failed"
  /\ tweets # <<>>
  /\ \E id \in DOMAIN texts : texts[id].xPostID >= 1

\* C22: in a run with DRY_RUN=1 no step uploads media, creates a tweet or
\* changes a row; the run passes the credential check whether or not the
\* credentials are set, and ends after the preview with the previewed row
\* still unposted.
C22_DryRunTouchesNothing ==
  [][ dryRun =>
        /\ UNCHANGED <<texts, tweets, uploads>>
        /\ pc = "start" => pc' = "select"
        /\ pc = "status" => (pc' = "exit0" /\ ~texts'[sel].posted)
        /\ pc' \notin {"upload", "tweet", "mark"}
    ]_vars

\* a dry run without credentials has ended after previewing a text that has
\* an image
C22_Witness ==
  /\ pc = "exit0"
  /\ dryRun
  /\ ~creds
  /\ sel # Nil
  /\ images[sel] # <<>>
  /\ ~texts[sel].posted

\* C23 as claimed: over the runs on one database no text has two tweets,
\* and once as many runs have posted a text as the table has rows the
\* selection of every further run ends it with "no unposted texts remain".
PostedByARun == {id \in DOMAIN texts : texts[id].xPostID >= 1}
C23_NoTextTweetedTwice ==
  [][ /\ \A i \in 1..Len(tweets') : \A j \in 1..Len(tweets') :
           i # j => tweets'[i] # tweets'[j]
      /\ (pc = "select" /\ Cardinality(PostedByARun) = Cardinality(DOMAIN texts)) =>
           (pc' = "exit1" /\ perr' = "no unposted texts remain")
    ]_vars

\* =================================================================
\* The output of the whole run (checked under Spec and SpecAsm)
\* =================================================================
\* C24 as claimed: once the page pass is over no text of the verse map, and
\* at any time no body of an emitted entity, has white space directly
\* before one of , . ; : ! ?
NoSpaceBeforePunct(t) ==
  \A i \in 1..(Len(t) - 1) : ~(t[i] \in WhiteSpace /\ t[i + 1] \in Punct)
PagePassOver == pc \in {"pairs", "composites", "singles", "done", "fatal"}
C24_NoSpaceBeforePunctuation ==
  /\ PagePassOver => \A n \in DOMAIN verses : NoSpaceBeforePunct(verses[n])
  /\ \A i \in 1..Len(entities) : NoSpaceBeforePunct(entities[i].body)

\* C25 as claimed: the labels of the emitted entities are pairwise distinct.
C25_LabelsDistinct ==
  \A i \in 1..Len(entities) : \A j \in 1..Len(entities) :
    i # j => entities[i].label # entities[j].label

====
